---- MODULE Spec2Model ----
(***************************************************************************)
(* Model of the Commerzbank statement parser (src/src/transaction_parser.py)*)
(*                                                                         *)
(* A string is a tuple of one-character strings, a text is the tuple of    *)
(* its lines (what text.split('\n') yields), and a line is named by its     *)
(* index into Lexicon, which spells the line out character by character.   *)
(* The regular expressions of the parser are evaluated on those characters.*)
(***************************************************************************)
EXTENDS Integers, Sequences, FiniteSets, TLC

VARIABLES
    year,          \* [Parsers -> Int]  self.year of each TransactionParser (NoYear = None)
    self,          \* [Invocations -> Parsers]  the parser object a parse call runs on
    pc,            \* [Invocations -> STRING]  position of the parse call
    text,          \* [Invocations -> Seq(line id)]  argument of parse, split in lines
    i,             \* [Invocations -> Nat]  scan cursor (0-based, as in the code)
    booking_date,  \* [Invocations -> date]  booking date of the open block
    transactions,  \* [Invocations -> Seq(Transaction)]  local list of parse
    outcome,       \* [Invocations -> STRING]  how the last call ended
    returned,      \* [Invocations -> Seq(Transaction)]  what the last call handed back
    hist,          \* [Invocations -> record]  history of the running call (never read by the code)
    probe,         \* history: first completed call on the probe text
    betrag_str,    \* argument of a direct _parse_betrag call
    amount,        \* result of that call
    valuta_call,   \* a direct _parse_valuta call: its argument and its result
    cell,          \* a direct _format_betrag call: its argument and its result
    csv,           \* a CSVWriter.write call: arguments, position, destination file
    spans          \* [Invocations -> Seq(record)]  history: the look-ahead of each record

vars == <<year, self, pc, text, i, booking_date, transactions, outcome,
          returned, hist, probe, betrag_str, amount, valuta_call, cell, csv, spans>>

-----------------------------------------------------------------------------
(* Bounds *)

MaxLines == 4        \* longest text of Spec

MaxTwiceLines == 3   \* longest probe text of SpecTwice

MaxParLines == 3     \* longest text of SpecPar

MaxAmountLen == 7    \* longest enumerated amount token of SpecBetrag

-----------------------------------------------------------------------------
(* Characters and strings *)

Digit == {"0","1","2","3","4","5","6","7","8","9"}

DigitSeq == <<"0","1","2","3","4","5","6","7","8","9">>

DigitVal(c) == (CHOOSE k \in 1..10 : DigitSeq[k] = c) - 1

\* \s of the re module, restricted to the characters the Lexicon uses
Whitespace == {" ", "\t"}

RECURSIVE LStrip(_)
LStrip(s) == IF s # <<>> /\ Head(s) \in Whitespace THEN LStrip(Tail(s)) ELSE s

RECURSIVE RStrip(_)
RStrip(s) == IF s # <<>> /\ s[Len(s)] \in Whitespace
             THEN RStrip(SubSeq(s, 1, Len(s) - 1)) ELSE s

\* str.strip()
Strip(s) == LStrip(RStrip(s))

\* An element of a pattern is a literal character or the class \d
D == "\\d"

ElemMatches(e, c) == IF e = D THEN c \in Digit ELSE e = c

\* re.match: the pattern matches s at 0-based offset k
MatchAt(pat, s, k) ==
    /\ k + Len(pat) <= Len(s)
    /\ \A j \in 1..Len(pat) : ElemMatches(pat[j], s[k + j])

\* the greatest element of a non-empty set of positions
Last(hits) == CHOOSE k \in hits : \A h \in hits : k >= h

\* the least element of a non-empty set of positions
First(hits) == CHOOSE k \in hits : \A h \in hits : k <= h

\* re.search: 1-based start of the leftmost match of pat in s, 0 if none
Leftmost(hits) == IF hits = {} THEN 0 ELSE 1 + First(hits)

Search(pat, s) == Leftmost({k \in 0..Len(s) : MatchAt(pat, s, k)})

DatePattern == <<D, D, ".", D, D, ".", D, D, D, D>>

\* r'Kontoauszug vom (\d{2}\.\d{2}\.\d{4})'
STATEMENT_DATE_PATTERN ==
    <<"K","o","n","t","o","a","u","s","z","u","g"," ","v","o","m"," ">> \o DatePattern

\* r'Buchungsdatum: (\d{2}\.\d{2}\.\d{4})'
BOOKING_DATE_PATTERN ==
    <<"B","u","c","h","u","n","g","s","d","a","t","u","m",":"," ">> \o DatePattern

\* group(1) of a match of one of the two date patterns starting at `start`
DateGroup(pat, s, start) == SubSeq(s, start + Len(pat) - 10, start + Len(pat) - 1)

\* [\d.,]+[-]?  matched against a whole token
IsAmountToken(tok) ==
    LET n == Len(tok)
        body == IF n > 0 /\ tok[n] = "-" THEN SubSeq(tok, 1, n - 1) ELSE tok
    IN  /\ body # <<>>
        /\ \A j \in 1..Len(body) : body[j] \in Digit \cup {".", ","}

\* r'^(.+?)\s+(\d{2}\.\d{2})\s+([\d.,]+[-]?)$' : the splits <<a, b, c>> of s
\* with group 1 = s[1..a], \s+ = s[a+1..b], group 2 = s[b+1..b+5],
\* \s+ = s[b+6..c], group 3 = s[c+1..Len(s)]
TransactionSplits(s) ==
    LET n == Len(s)
    IN  {sp \in (1..n) \X (1..n) \X (1..n) :
            LET a == sp[1]
                b == sp[2]
                c == sp[3]
            IN  /\ a < b /\ b + 5 < c /\ c < n
                /\ \A j \in (a + 1)..b : s[j] \in Whitespace
                /\ MatchAt(<<D, D, ".", D, D>>, s, b)
                /\ \A j \in (b + 6)..c : s[j] \in Whitespace
                /\ IsAmountToken(SubSeq(s, c + 1, n))}

\* match.group(1), group(2), group(3) of the match with the split sp
Groups(s, sp) ==
    [matched |-> TRUE,
     g1 |-> SubSeq(s, 1, sp[1]),
     g2 |-> SubSeq(s, sp[2] + 1, sp[2] + 5),
     g3 |-> SubSeq(s, sp[3] + 1, Len(s))]

\* the lazy group 1 takes the shortest of the splits sps
ShortestSplit(s, sps) ==
    IF sps = {} THEN [matched |-> FALSE, g1 |-> <<>>, g2 |-> <<>>, g3 |-> <<>>]
    ELSE Groups(s, CHOOSE p \in sps : \A q \in sps : p[1] <= q[1])

\* re.search(TRANSACTION_PATTERN, s)
TRANSACTION_PATTERN(s) == ShortestSplit(s, TransactionSplits(s))

-----------------------------------------------------------------------------
(* Dates: datetime.strptime(s, '%d.%m.%Y') *)

NoDate == [d |-> 0, m |-> 0, y |-> 0]

Num2(s, k) == 10 * DigitVal(s[k]) + DigitVal(s[k + 1])

Num4(s, k) == 100 * Num2(s, k) + Num2(s, k + 2)

IsLeap(y) == (y % 4 = 0 /\ y % 100 # 0) \/ y % 400 = 0

DaysIn(m, y) == IF m = 2 THEN (IF IsLeap(y) THEN 29 ELSE 28)
                ELSE IF m \in {4, 6, 9, 11} THEN 30 ELSE 31

\* the calendar check of datetime: a ValueError unless the date exists
ValidDate(d, m, y) == /\ y >= 1
                      /\ m \in 1..12
                      /\ d >= 1 /\ d <= DaysIn(m, y)

\* _parse_date on a string of the shape dd.dd.dddd
parse_date(date_str) ==
    LET d == Num2(date_str, 1)
        m == Num2(date_str, 4)
        y == Num4(date_str, 7)
    IN  [ok |-> ValidDate(d, m, y), date |-> [d |-> d, m |-> m, y |-> y]]

\* self.year = None
NoYear == 0

\* a value-date parser that takes 2021 when no year is resolved
parse_valuta_guess(valuta_str, yr) ==
    IF ValidDate(Num2(valuta_str, 1), Num2(valuta_str, 4), IF yr = NoYear THEN 2021 ELSE yr)
    THEN [ok |-> TRUE, error |-> "",
          date |-> [d |-> Num2(valuta_str, 1), m |-> Num2(valuta_str, 4),
                    y |-> IF yr = NoYear THEN 2021 ELSE yr]]
    ELSE [ok |-> FALSE, error |-> "InvalidDate", date |-> NoDate]

\* _parse_valuta: f"{valuta_str}.{self.year}" parsed with '%d.%m.%Y'; %Y wants
\* four digits, and `not self.year` is true of None and of 0
parse_valuta(valuta_str, yr) ==
    LET d == Num2(valuta_str, 1)
        m == Num2(valuta_str, 4)
    IN  IF yr = NoYear
        THEN [ok |-> FALSE, error |-> "YearNotResolved", date |-> NoDate]
        ELSE IF yr >= 1000 /\ yr <= 9999 /\ ValidDate(d, m, yr)
        THEN [ok |-> TRUE, error |-> "", date |-> [d |-> d, m |-> m, y |-> yr]]
        ELSE [ok |-> FALSE, error |-> "InvalidDate", date |-> NoDate]

-----------------------------------------------------------------------------
(* Amounts: decimal.Decimal as sign, coefficient digits and exponent *)

\* decimal.getcontext().prec, the default context of the decimal module
DecimalPrec == 28

RECURSIVE Remove(_, _)
Remove(s, c) == IF s = <<>> THEN <<>>
                ELSE IF Head(s) = c THEN Remove(Tail(s), c)
                ELSE <<Head(s)>> \o Remove(Tail(s), c)

\* str.replace(a, b) for single characters
Replace(s, a, b) == [k \in 1..Len(s) |-> IF s[k] = a THEN b ELSE s[k]]

RECURSIVE RStripMinus(_)
RStripMinus(s) == IF s # <<>> /\ s[Len(s)] = "-"
                  THEN RStripMinus(SubSeq(s, 1, Len(s) - 1)) ELSE s

RECURSIVE StripLeadingZeros(_)
StripLeadingZeros(ds) == IF Len(ds) > 1 /\ Head(ds) = 0
                         THEN StripLeadingZeros(Tail(ds)) ELSE ds

IsZeroDigits(ds) == \A k \in 1..Len(ds) : ds[k] = 0

Zero == [sign |-> 0, digits |-> <<0>>, exp |-> 0]

\* Decimal(s) for s over digits and '.': a numeral has at most one point and
\* at least one digit; anything else raises decimal.InvalidOperation
Decimal(s) ==
    LET points == {k \in 1..Len(s) : s[k] = "."}
        ds     == Remove(s, ".")
    IN  IF Cardinality(points) > 1 \/ ds = <<>>
           \/ \E k \in 1..Len(ds) : ds[k] \notin Digit
        THEN [ok |-> FALSE, value |-> Zero]
        ELSE LET p == IF points = {} THEN Len(s) + 1 ELSE CHOOSE k \in points : TRUE
             IN  [ok |-> TRUE,
                  value |-> [sign   |-> 0,
                             digits |-> StripLeadingZeros([k \in 1..Len(ds) |-> DigitVal(ds[k])]),
                             exp    |-> IF points = {} THEN 0 ELSE p - Len(s)]]

\* digits + 1, as long as the input (all nines wrap to zeros, carry reported)
RECURSIVE Increment(_)
Increment(ds) ==
    IF ds = <<>> THEN [digits |-> <<>>, carry |-> TRUE]
    ELSE LET n == Len(ds)
         IN  IF ds[n] < 9
             THEN [digits |-> [ds EXCEPT ![n] = ds[n] + 1], carry |-> FALSE]
             ELSE LET r == Increment(SubSeq(ds, 1, n - 1))
                  IN  [digits |-> r.digits \o <<0>>, carry |-> r.carry]

\* Decimal._fix: round to the context precision, ROUND_HALF_EVEN
Fix(v) ==
    LET n == Len(v.digits)
    IN  IF n <= DecimalPrec THEN v
        ELSE LET keep == SubSeq(v.digits, 1, DecimalPrec)
                 rest == SubSeq(v.digits, DecimalPrec + 1, n)
                 up   == \/ rest[1] > 5
                         \/ /\ rest[1] = 5
                            /\ \/ ~IsZeroDigits(Tail(rest))
                               \/ keep[DecimalPrec] % 2 = 1
                 inc  == Increment(keep)
             IN  IF ~up
                 THEN [v EXCEPT !.digits = keep, !.exp = v.exp + (n - DecimalPrec)]
                 ELSE IF inc.carry
                 THEN [v EXCEPT !.digits = <<1>> \o SubSeq(inc.digits, 1, DecimalPrec - 1),
                                !.exp = v.exp + (n - DecimalPrec) + 1]
                 ELSE [v EXCEPT !.digits = inc.digits, !.exp = v.exp + (n - DecimalPrec)]

\* Decimal.__neg__: minus zero becomes plus zero, and the result is rounded
\* to the context precision
Neg(v) == IF IsZeroDigits(v.digits) THEN Fix([v EXCEPT !.sign = 0])
          ELSE Fix([v EXCEPT !.sign = 1 - v.sign])

\* lines 267-271: InvalidOperation becomes the ValueError of a malformed
\* amount; otherwise amount = -amount if is_negative
Signed(is_negative, dec) ==
    IF ~dec.ok THEN [ok |-> FALSE, value |-> Zero]
    ELSE [ok |-> TRUE, value |-> IF is_negative THEN Neg(dec.value) ELSE dec.value]

\* _parse_betrag: endswith('-'), rstrip('-'), replace('.', ''), replace(',', '.')
parse_betrag(s) ==
    Signed(s # <<>> /\ s[Len(s)] = "-",
           Decimal(Replace(Remove(RStripMinus(s), "."), ",", ".")))

-----------------------------------------------------------------------------
(* Line classification *)

\* skip_patterns of _is_non_transaction_line: a literal, anchored by ^ or not
skip_patterns == <<
    [anchored |-> TRUE,  lit |-> <<"B","u","c","h","u","n","g","s","d","a","t","u","m",":">>],
    [anchored |-> FALSE, lit |-> <<"E","n","d","-","t","o","-","E","n","d","-","R","e","f">>],
    [anchored |-> TRUE,  lit |-> <<"M","a","n","d","a","t","s","r","e","f",":">>],
    [anchored |-> TRUE,  lit |-> <<"G","l","ä","u","b","i","g","e","r","-","I","D",":">>],
    [anchored |-> TRUE,  lit |-> <<"S","E","P","A","-">>],
    [anchored |-> TRUE,  lit |-> <<"F","o","l","g","e","s","e","i","t","e">>],
    [anchored |-> TRUE,  lit |-> <<"K","o","n","t","o","a","u","s","z","u","g"," ","v","o","m">>],
    [anchored |-> TRUE,  lit |-> <<"A","u","s","z","u","g","-","N","r",".">>],
    [anchored |-> TRUE,  lit |-> <<"I","B","A","N",":">>],
    [anchored |-> TRUE,  lit |-> <<"B","I","C">>],
    [anchored |-> TRUE,  lit |-> <<"K","o","n","t","o","w","ä","h","r","u","n","g">>],
    [anchored |-> TRUE,  lit |-> <<"A","n","g","a","b","e","n"," ","z","u"," ","d","e","n"," ","U","m","s","ä","t","z","e","n">>] >>

\* _is_non_transaction_line
is_non_transaction_line(line) ==
    \E k \in 1..Len(skip_patterns) :
        IF skip_patterns[k].anchored
        THEN MatchAt(skip_patterns[k].lit, line, 0)
        ELSE Search(skip_patterns[k].lit, line) # 0

\* The lines a text is made of
Lexicon == <<
    \* 1  Kontoauszug vom 30.04.2021
    <<"K","o","n","t","o","a","u","s","z","u","g"," ","v","o","m"," ","3","0",".","0","4",".","2","0","2","1">>,
    \* 2  Buchungsdatum: 01.04.2021
    <<"B","u","c","h","u","n","g","s","d","a","t","u","m",":"," ","0","1",".","0","4",".","2","0","2","1">>,
    \* 3  Buchungsdatum: 06.04.2021
    <<"B","u","c","h","u","n","g","s","d","a","t","u","m",":"," ","0","6",".","0","4",".","2","0","2","1">>,
    \* 4  A 01.04 17,60-
    <<"A"," ","0","1",".","0","4"," ","1","7",",","6","0","-">>,
    \* 5  (blank) B 06.04 (two blanks) 592,00 (blank)
    <<" ","B"," ","0","6",".","0","4"," "," ","5","9","2",",","0","0"," ">>,
    \* 6  X Buchungsdatum: 06.04.2021 06.04 0,99-
    <<"X"," ","B","u","c","h","u","n","g","s","d","a","t","u","m",":"," ","0","6",".","0","4",".","2","0","2","1"," ","0","6",".","0","4"," ","0",",","9","9","-">>,
    \* 7  SEPA-X 01.04 5,00
    <<"S","E","P","A","-","X"," ","0","1",".","0","4"," ","5",",","0","0">>,
    \* 8  End-to-End-Ref.: X
    <<"E","n","d","-","t","o","-","E","n","d","-","R","e","f",".",":"," ","X">>,
    \* 9  RATE PER
    <<"R","A","T","E"," ","P","E","R">>,
    \* 10 the empty line
    <<>>,
    \* 11 C 31.02 1,00
    <<"C"," ","3","1",".","0","2"," ","1",",","0","0">>,
    \* 12 C 01.04 1,2,3
    <<"C"," ","0","1",".","0","4"," ","1",",","2",",","3">>,
    \* 13 Buchungsdatum: 31.02.2021
    <<"B","u","c","h","u","n","g","s","d","a","t","u","m",":"," ","3","1",".","0","2",".","2","0","2","1">>,
    \* 14 Ihr Kontoauszug vom 29.02.2020
    <<"I","h","r"," ","K","o","n","t","o","a","u","s","z","u","g"," ","v","o","m"," ","2","9",".","0","2",".","2","0","2","0">>,
    \* 15 Kontoauszug vom 31.02.2021
    <<"K","o","n","t","o","a","u","s","z","u","g"," ","v","o","m"," ","3","1",".","0","2",".","2","0","2","1">>,
    \* 16 Z 01.04 0,00-
    <<"Z"," ","0","1",".","0","4"," ","0",",","0","0","-">>,
    \* 17 Z 01.04 0,00
    <<"Z"," ","0","1",".","0","4"," ","0",",","0","0">>,
    \* 18 (two blanks) RATE (two blanks) PER (blank)
    <<" "," ","R","A","T","E"," "," ","P","E","R"," ">>,
    \* 19 X Buchungsdatum: 31.02.2021 06.04 0,99-
    <<"X"," ","B","u","c","h","u","n","g","s","d","a","t","u","m",":"," ","3","1",".","0","2",".","2","0","2","1"," ","0","6",".","0","4"," ","0",",","9","9","-">>,
    \* 20 SEPA-X 31.02 5,00
    <<"S","E","P","A","-","X"," ","3","1",".","0","2"," ","5",",","0","0">>,
    \* 21 C 01.04 1.2,5
    <<"C"," ","0","1",".","0","4"," ","1",".","2",",","5">>
    >>

LineIds == DOMAIN Lexicon

\* What the regular expressions of the parser find in each line of the
\* Lexicon, evaluated once: on the raw line (the header search runs over the
\* whole text, line 70 of parse over lines[i]) and on line.strip(); betrag is
\* _parse_betrag of group 3 of the transaction pattern
Facts(raw, line, h, b, match) ==
    [line        |-> line,
     header      |-> h # 0,
     header_date |-> IF h = 0 THEN <<>> ELSE DateGroup(STATEMENT_DATE_PATTERN, raw, h),
     booking     |-> b # 0,
     booking_raw |-> Search(BOOKING_DATE_PATTERN, raw) # 0,
     booking_str |-> IF b = 0 THEN <<>> ELSE DateGroup(BOOKING_DATE_PATTERN, line, b),
     noise       |-> is_non_transaction_line(line),
     match       |-> match,
     betrag      |-> parse_betrag(match.g3)]

FactsOf(raw, line) ==
    Facts(raw, line, Search(STATEMENT_DATE_PATTERN, raw),
          Search(BOOKING_DATE_PATTERN, line), TRANSACTION_PATTERN(line))

LineFacts == [id \in LineIds |-> FactsOf(Lexicon[id], Strip(Lexicon[id]))]

\* ' '.join(parts)
RECURSIVE Join(_)
Join(parts) == IF Len(parts) = 1 THEN parts[1]
               ELSE parts[1] \o <<" ">> \o Join(Tail(parts))

\* a collector that stops at the next booking date only
StopsAtMarker(f) == f.booking

\* lines 201-206: the loop stops at the next transaction or booking date
StopsAt(f) == f.match.matched \/ f.booking

\* a collector that passes over the empty line only
AbsorbNoise(acc, f, j) ==
    IF f.line = <<>>
    THEN [acc EXCEPT !.examined = acc.examined + 1]
    ELSE [acc EXCEPT !.examined = acc.examined + 1,
                     !.parts = Append(acc.parts, f.line),
                     !.absorbed = acc.absorbed \cup {j}]

\* lines 208-212: an empty line and a noise line are passed over, any other
\* line is appended to the parts; j is the 0-based index of the line
Absorb(acc, f, j) ==
    IF f.line = <<>> \/ f.noise
    THEN [acc EXCEPT !.examined = acc.examined + 1]
    ELSE [acc EXCEPT !.examined = acc.examined + 1,
                     !.parts = Append(acc.parts, f.line),
                     !.absorbed = acc.absorbed \cup {j}]

\* the loop of _collect_description from index j (0-based) up to `stop`
RECURSIVE CollectLoop(_, _, _, _)
CollectLoop(lines, j, stop, acc) ==
    IF j >= stop THEN acc
    ELSE IF StopsAt(LineFacts[lines[j + 1]])
    THEN [acc EXCEPT !.examined = acc.examined + 1, !.stop = j + 1]
    ELSE CollectLoop(lines, j + 1, stop, Absorb(acc, LineFacts[lines[j + 1]], j))

\* the look-ahead of _collect_description: range(start_index, start_index + 5)
LookAhead == 5

Min(a, b) == IF a <= b THEN a ELSE b

\* a collector that returns the description it was given
DescriptionOnly(r) ==
    [description |-> r.parts[1], examined |-> r.examined, absorbed |-> r.absorbed,
     stop |-> r.stop]

\* _collect_description; `examined` and `absorbed` count and name the lines
\* the loop looked at and joined, `stop` is the 1-based number of the line the
\* loop broke at, 0 if it ran to its end (history, not part of the result)
Collected(r) ==
    [description |-> Join(r.parts), examined |-> r.examined, absorbed |-> r.absorbed,
     stop |-> r.stop]

\* a collector that looks ahead to the end of the text
collect_to_end(lines, start_index, initial_desc) ==
    Collected(CollectLoop(lines, start_index, Len(lines),
                          [parts |-> <<initial_desc>>, examined |-> 0, absorbed |-> {},
                           stop |-> 0]))

collect_description(lines, start_index, initial_desc) ==
    Collected(CollectLoop(lines, start_index,
                          Min(start_index + LookAhead, Len(lines)),
                          [parts |-> <<initial_desc>>, examined |-> 0, absorbed |-> {},
                           stop |-> 0]))

\* Optional[str]
None == [some |-> FALSE, v |-> <<>>]

Some(v) == [some |-> TRUE, v |-> v]

EUR == <<"E","U","R">>

\* Transaction(...) as _try_parse_transaction builds it; src is the index of
\* the line it was built from (history, not a field of the dataclass)
Transaction(booking, valuta, beschreibung, betrag, verwendungszweck, index) ==
    [buchungsdatum    |-> booking,
     valuta           |-> valuta,
     beschreibung     |-> beschreibung,
     betrag           |-> betrag,
     waehrung         |-> EUR,
     gegenkonto_iban  |-> None,
     gegenkonto_bic   |-> None,
     verwendungszweck |-> Some(verwendungszweck),
     src              |-> index]

NoTransaction == Transaction(NoDate, NoDate, <<>>, Zero, <<>>, 0)

\* return None, lines 117 and 122
Nothing == [kind |-> "none", error |-> "", trans |-> NoTransaction, examined |-> 0,
            span |-> [src |-> 0, absorbed |-> {}, examined |-> 0, stop |-> 0]]

\* lines 124-144 on a line the pattern matched: _parse_valuta, then
\* _parse_betrag, then _collect_description, then Transaction(...)
BuildTransaction(f, beschreibung, valuta, full, booking, index) ==
    IF ~valuta.ok
    THEN [Nothing EXCEPT !.kind = "raise", !.error = valuta.error]
    ELSE IF ~f.betrag.ok
    THEN [Nothing EXCEPT !.kind = "raise", !.error = "MalformedAmount"]
    ELSE [kind     |-> "trans",
          error    |-> "",
          trans    |-> Transaction(booking, valuta.date, beschreibung,
                                   f.betrag.value, full.description, index),
          examined |-> full.examined,
          span     |-> [src |-> index, absorbed |-> full.absorbed,
                        examined |-> full.examined, stop |-> full.stop]]

\* lines 113-122: the empty line and the noise catalog come before the pattern
ClassifyLine(f, lines, index, booking, yr) ==
    IF f.line = <<>> \/ f.noise THEN Nothing
    ELSE IF ~f.match.matched THEN Nothing
    ELSE BuildTransaction(f, Strip(f.match.g1), parse_valuta(f.match.g2, yr),
                          collect_description(lines, index + 1, Strip(f.match.g1)),
                          booking, index)

\* _try_parse_transaction: kind "none" (returns None), "trans" or "raise"
try_parse_transaction(lines, index, booking, yr) ==
    ClassifyLine(LineFacts[lines[index + 1]], lines, index, booking, yr)

\* lines 92-94: strptime of the matched date, and its year
YearOfDate(d) ==
    IF d.ok THEN [ok |-> TRUE, error |-> "", year |-> d.date.y]
    ELSE [ok |-> FALSE, error |-> "InvalidDate", year |-> NoYear]

\* a resolver that falls back on the current year when the text has no header
LenientYear(lines, hits) ==
    IF hits = {} THEN [ok |-> TRUE, error |-> "", year |-> 2021]
    ELSE YearOfDate(parse_date(LineFacts[lines[First(hits)]].header_date))

\* lines 88-94 with the lines `hits` matching the header pattern: no match
\* raises, otherwise the first match is taken
StatementYearOf(lines, hits) ==
    IF hits = {} THEN [ok |-> FALSE, error |-> "MissingStatementDate", year |-> NoYear]
    ELSE YearOfDate(parse_date(LineFacts[lines[First(hits)]].header_date))

\* _extract_year: the first match of the header pattern in the text
extract_year(lines) ==
    StatementYearOf(lines, {k \in 1..Len(lines) : LineFacts[lines[k]].header})

-----------------------------------------------------------------------------
(* State *)

Parsers == {1, 2}

Invocations == {1, 2}

\* all texts of at most n lines over the lines of pool
TextsOver(pool, n) == UNION {[1..len -> pool] : len \in 0..n}

NoHist == [steps |-> 0, last |-> "none", examined |-> 0, breaks |-> 0, built |-> 0]

\* a probe text no call ever parses
NoProbe == [text |-> <<0>>, seen |-> FALSE, again |-> FALSE, between |-> FALSE,
            outcome |-> "none", returned |-> <<>>]

Errors == {"MissingStatementDate", "InvalidDate", "YearNotResolved", "MalformedAmount"}

\* TransactionParser.__init__ for both parsers, no call running
Fresh ==
    /\ year = [p \in Parsers |-> NoYear]
    /\ pc = [k \in Invocations |-> "idle"]
    /\ text = [k \in Invocations |-> <<>>]
    /\ i = [k \in Invocations |-> 0]
    /\ booking_date = [k \in Invocations |-> NoDate]
    /\ transactions = [k \in Invocations |-> <<>>]
    /\ outcome = [k \in Invocations |-> "none"]
    /\ returned = [k \in Invocations |-> <<>>]
    /\ hist = [k \in Invocations |-> NoHist]
    /\ spans = [k \in Invocations |-> <<>>]

NoBetrag == /\ betrag_str = <<>>
            /\ amount = [called |-> FALSE, ok |-> FALSE, value |-> Zero]

\* no direct call of _parse_valuta was made
NoValuta == [called |-> FALSE, arg |-> <<>>, yr |-> NoYear, ok |-> FALSE, error |-> "",
             date |-> NoDate]

\* no direct call of _format_betrag was made
NoCell == [called |-> FALSE, arg |-> Zero, text |-> <<>>]

\* a path that names no file
NoFile == [exists |-> FALSE, readonly |-> FALSE, rows |-> <<>>]

\* no CSVWriter.write call was made
NoCsv == [pc |-> "idle", transactions |-> <<>>, path |-> <<>>, before |-> NoFile,
          file |-> NoFile, opened |-> FALSE, outcome |-> "none"]

NoWriter == /\ valuta_call = NoValuta
            /\ cell = NoCell
            /\ csv = NoCsv

-----------------------------------------------------------------------------
(* parse, one action per step of the call *)

\* parse is called with the text t: lines 46-51 before _extract_year runs
DoCall(k, t) ==
    /\ pc[k] = "idle"
    /\ pc' = [pc EXCEPT ![k] = "extract"]
    /\ text' = [text EXCEPT ![k] = t]
    /\ i' = [i EXCEPT ![k] = 0]
    /\ booking_date' = [booking_date EXCEPT ![k] = NoDate]
    /\ transactions' = [transactions EXCEPT ![k] = <<>>]
    /\ outcome' = [outcome EXCEPT ![k] = "running"]
    /\ returned' = [returned EXCEPT ![k] = <<>>]
    /\ hist' = [hist EXCEPT ![k] = NoHist]
    /\ spans' = [spans EXCEPT ![k] = <<>>]
    /\ UNCHANGED <<year, self, probe, betrag_str, amount, valuta_call, cell, csv>>

\* an error path that hands back what was built so far
PartialResult(partial) == partial

\* what the caller holds after an exception left parse: no list at all
RaiseResult(partial) == <<>>

\* the first completed call on the probe text is remembered, and so is
\* whether another text was parsed after it and whether the probe text was
\* parsed again after that
Probed(k, oc, ret) ==
    IF text[k] = probe.text
    THEN IF ~probe.seen
         THEN [probe EXCEPT !.seen = TRUE, !.outcome = oc, !.returned = ret]
         ELSE [probe EXCEPT !.again = probe.between]
    ELSE [probe EXCEPT !.between = probe.seen]

\* an exception leaves parse: the frame, with the list built so far, is dropped
Raise(k, error) ==
    /\ pc' = [pc EXCEPT ![k] = "done"]
    /\ outcome' = [outcome EXCEPT ![k] = error]
    /\ returned' = [returned EXCEPT ![k] = RaiseResult(transactions[k])]
    /\ probe' = Probed(k, error, RaiseResult(transactions[k]))
    /\ hist' = [hist EXCEPT ![k].built = Len(transactions[k])]
    /\ i' = [i EXCEPT ![k] = 0]
    /\ booking_date' = [booking_date EXCEPT ![k] = NoDate]
    /\ transactions' = [transactions EXCEPT ![k] = <<>>]
    /\ UNCHANGED <<text, self, betrag_str, amount, valuta_call, cell, csv, spans>>

Max(a, b) == IF a >= b THEN a ELSE b

\* history of one completed scanner step: its kind, and the largest number of
\* lines a look-ahead of this call examined
Stepped(k, kind, examined) ==
    hist' = [hist EXCEPT ![k].steps = hist[k].steps + 1,
                         ![k].last = kind,
                         ![k].breaks = hist[k].breaks + (IF kind = "break" THEN 1 ELSE 0),
                         ![k].examined = Max(hist[k].examined, examined)]

\* a resolver that keeps the later of the year it holds and the new one
LaterYear(old, new) == Max(old, new)

\* self.year = date_obj.year, line 94: the new year replaces the old one
ResolvedYear(old, new) == new

\* self._extract_year(text), line 46
ExtractYear(k) ==
    /\ pc[k] = "extract"
    /\ \E r \in {extract_year(text[k])} :
           IF r.ok
           THEN /\ year' = [year EXCEPT ![self[k]] = ResolvedYear(year[self[k]], r.year)]
                /\ pc' = [pc EXCEPT ![k] = "outer"]
                /\ UNCHANGED <<self, text, i, booking_date, transactions, outcome,
                               returned, hist, probe, betrag_str, amount, valuta_call, cell, csv, spans>>
           ELSE /\ Raise(k, r.error)
                /\ UNCHANGED year

\* lines 58-60: the marker's date becomes the booking date and the block is
\* entered, or _parse_date raises
OpenBlock(k, d) ==
    IF d.ok
    THEN /\ booking_date' = [booking_date EXCEPT ![k] = d.date]
         /\ i' = [i EXCEPT ![k] = i[k] + 1]
         /\ pc' = [pc EXCEPT ![k] = "inner"]
         /\ Stepped(k, "advance", 0)
         /\ UNCHANGED <<year, self, text, transactions, outcome,
                        returned, probe, betrag_str, amount, valuta_call, cell, csv, spans>>
    ELSE /\ Raise(k, "InvalidDate")
         /\ UNCHANGED year

\* lines 53-59 and 73-74 on the line with the facts f
SeekMarker(k, f) ==
    IF f.booking
    THEN OpenBlock(k, parse_date(f.booking_str))
    ELSE /\ i' = [i EXCEPT ![k] = i[k] + 1]
         /\ Stepped(k, "advance", 0)
         /\ UNCHANGED <<year, self, pc, text, booking_date, transactions,
                        outcome, returned, probe, betrag_str, amount, valuta_call, cell, csv, spans>>

\* one iteration of the outer while loop, lines 52-59 and 73-74
OuterStep(k) ==
    /\ pc[k] = "outer"
    /\ i[k] < Len(text[k])
    /\ SeekMarker(k, LineFacts[text[k][i[k] + 1]])

\* a list that grows at its head
PrependTransaction(list, trans) == <<trans>> \o list

\* transactions.append(trans), line 66
AppendTransaction(list, trans) == Append(list, trans)

\* an inner loop that does not leave the block at a marker
StayInBlock(k) ==
    /\ Stepped(k, "break", 0)
    /\ UNCHANGED <<year, self, pc, text, i, booking_date, transactions,
                   outcome, returned, probe, betrag_str, amount, valuta_call, cell, csv, spans>>

\* break, line 71: the inner loop is left, the cursor stays on the marker
LeaveBlock(k) ==
    /\ pc' = [pc EXCEPT ![k] = "outer"]
    /\ Stepped(k, "break", 0)
    /\ UNCHANGED <<year, self, text, i, booking_date, transactions,
                   outcome, returned, probe, betrag_str, amount, valuta_call, cell, csv, spans>>

\* one iteration of the inner while loop, lines 63-72
InnerStep(k) ==
    /\ pc[k] = "inner"
    /\ i[k] < Len(text[k])
    /\ \E r \in {try_parse_transaction(text[k], i[k], booking_date[k], year[self[k]])} :
           CASE r.kind = "trans" ->
                    /\ transactions' = [transactions EXCEPT
                                           ![k] = AppendTransaction(transactions[k], r.trans)]
                    /\ i' = [i EXCEPT ![k] = i[k] + 1]
                    /\ Stepped(k, "advance", r.examined)
                    /\ spans' = [spans EXCEPT ![k] = Append(spans[k], r.span)]
                    /\ UNCHANGED <<year, self, pc, text, booking_date, outcome,
                                   returned, probe, betrag_str, amount, valuta_call, cell, csv>>
             [] r.kind = "raise" ->
                    /\ Raise(k, r.error)
                    /\ UNCHANGED year
             [] r.kind = "none" ->
                    IF LineFacts[text[k][i[k] + 1]].booking_raw
                    THEN LeaveBlock(k)
                    ELSE /\ i' = [i EXCEPT ![k] = i[k] + 1]
                         /\ Stepped(k, "advance", 0)
                         /\ UNCHANGED <<year, self, pc, text, booking_date, transactions,
                                        outcome, returned, probe, betrag_str, amount, valuta_call, cell, csv, spans>>

\* both loops are over: return transactions, line 76
Return(k) ==
    /\ pc[k] \in {"outer", "inner"}
    /\ i[k] >= Len(text[k])
    /\ pc' = [pc EXCEPT ![k] = "done"]
    /\ outcome' = [outcome EXCEPT ![k] = "ok"]
    /\ returned' = [returned EXCEPT ![k] = transactions[k]]
    /\ probe' = Probed(k, "ok", transactions[k])
    /\ i' = [i EXCEPT ![k] = 0]
    /\ booking_date' = [booking_date EXCEPT ![k] = NoDate]
    /\ transactions' = [transactions EXCEPT ![k] = <<>>]
    /\ UNCHANGED <<year, self, text, hist, betrag_str, amount, valuta_call, cell, csv, spans>>

\* the caller is through with the result of the call (a test function ends);
\* the parser object and its year live on
Release(k) ==
    /\ pc[k] = "done"
    /\ pc' = [pc EXCEPT ![k] = "idle"]
    /\ text' = [text EXCEPT ![k] = <<>>]
    /\ outcome' = [outcome EXCEPT ![k] = "none"]
    /\ returned' = [returned EXCEPT ![k] = <<>>]
    /\ hist' = [hist EXCEPT ![k] = NoHist]
    /\ spans' = [spans EXCEPT ![k] = <<>>]
    /\ UNCHANGED <<year, self, i, booking_date, transactions, probe, betrag_str,
                   amount, valuta_call, cell, csv>>

\* the steps of a running call
Scan(k) == ExtractYear(k) \/ OuterStep(k) \/ InnerStep(k) \/ Return(k)

-----------------------------------------------------------------------------
(* One parser, one call after the other, on any text over MainPool *)

MainPool == {1, 2, 4, 6, 7, 11, 12, 13, 14}

Texts == TextsOver(MainPool, MaxLines)

Init ==
    /\ Fresh
    /\ self = [k \in Invocations |-> 1]
    /\ probe = NoProbe
    /\ NoBetrag
    /\ NoWriter

Call == pc[1] = "idle" /\ \E t \in Texts : DoCall(1, t)

Next == \/ Call
        \/ ExtractYear(1)
        \/ OuterStep(1)
        \/ InnerStep(1)
        \/ Return(1)
        \/ Release(1)

Spec == Init /\ [][Next]_vars

-----------------------------------------------------------------------------
(* One parser, long texts: a statement whose first block opens with a      *)
(* transaction line, followed by up to MaxTail more lines                   *)

MaxTail == 7

LongPool == {2, 9, 13}

LongTexts == {<<1, 2, 4>> \o tail : tail \in TextsOver(LongPool, MaxTail)}

CallLong == pc[1] = "idle" /\ \E t \in LongTexts : DoCall(1, t)

NextLong == \/ CallLong
            \/ ExtractYear(1)
            \/ OuterStep(1)
            \/ InnerStep(1)
            \/ Return(1)
            \/ Release(1)

SpecLong == Init /\ [][NextLong]_vars

-----------------------------------------------------------------------------
(* One parser, the probe text parsed again and again with other texts      *)
(* parsed in between                                                        *)

TwicePool == {1, 2, 4, 14}

\* the texts parsed in between: a 2021 statement, a 2020 statement, no header
Between == {<<1, 2, 4>>, <<14, 2, 4>>, <<2, 4>>}

InitTwice ==
    /\ Fresh
    /\ self = [k \in Invocations |-> 1]
    /\ \E t \in TextsOver(TwicePool, MaxTwiceLines) :
          probe = [NoProbe EXCEPT !.text = t]
    /\ NoBetrag
    /\ NoWriter

CallTwice == pc[1] = "idle" /\ \E t \in {probe.text} \cup Between : DoCall(1, t)

NextTwice == \/ CallTwice
             \/ ExtractYear(1)
             \/ OuterStep(1)
             \/ InnerStep(1)
             \/ Return(1)
             \/ Release(1)

SpecTwice == InitTwice /\ [][NextTwice]_vars

-----------------------------------------------------------------------------
(* Two parse calls in parallel, on one parser object or on two; every      *)
(* action is one atomic step of a thread                                    *)

ParPool == {1, 2, 4, 14}

ParTexts == TextsOver(ParPool, MaxParLines)

InitPar ==
    /\ Fresh
    /\ self \in {[k \in Invocations |-> 1], [k \in Invocations |-> k]}
    /\ probe = NoProbe
    /\ NoBetrag
    /\ NoWriter

CallPar(k) == pc[k] = "idle" /\ \E t \in ParTexts : DoCall(k, t)

NextPar == \E k \in Invocations :
              \/ CallPar(k)
              \/ ExtractYear(k)
              \/ OuterStep(k)
              \/ InnerStep(k)
              \/ Return(k)

SpecPar == InitPar /\ [][NextPar]_vars

-----------------------------------------------------------------------------
(* _parse_betrag called directly on an amount token *)

AmountChars == {"0", "1", ".", ",", "-"}

\* 12345678901234567890123456789,01-
LongNumeral == <<"1","2","3","4","5","6","7","8","9","0","1","2","3","4","5","6","7","8","9","0","1","2","3","4","5","6","7","8","9",",","0","1","-">>

\* the tokens group 3 of the transaction pattern can hold
AmountTokens ==
    {s \in TextsOver(AmountChars, MaxAmountLen) : IsAmountToken(s)}
        \cup {LongNumeral, RStripMinus(LongNumeral)}

NotCalled == [called |-> FALSE, ok |-> FALSE, value |-> Zero]

InitBetrag ==
    /\ Fresh
    /\ self = [k \in Invocations |-> 1]
    /\ probe = NoProbe
    /\ betrag_str \in AmountTokens
    /\ amount = NotCalled
    /\ NoWriter

ParseBetrag ==
    /\ ~amount.called
    /\ amount' = [called |-> TRUE,
                  ok     |-> parse_betrag(betrag_str).ok,
                  value  |-> parse_betrag(betrag_str).value]
    /\ UNCHANGED <<year, self, pc, text, i, booking_date, transactions, outcome,
                   returned, hist, probe, betrag_str, valuta_call, cell, csv, spans>>

NextBetrag == ParseBetrag

SpecBetrag == InitBetrag /\ [][NextBetrag]_vars

-----------------------------------------------------------------------------
(* Properties of parse *)

\* the text has a statement-date header somewhere
HasHeader(t) == \E n \in 1..Len(t) : LineFacts[t[n]].header

\* line n (1-based) of t is or contains a booking-date marker
IsMarker(t, n) == LineFacts[t[n]].booking

\* line n (1-based) of t matches the transaction-line grammar
IsTransactionLine(t, n) == LineFacts[t[n]].match.matched

\* C1: a call on a text without statement-date header ends with the
\* missing-statement-date error, before any scanner step, and hands back no record
C1_MissingHeaderFails ==
    \A k \in Invocations :
        (pc[k] = "done" /\ ~HasHeader(text[k]))
            => /\ outcome[k] = "MissingStatementDate"
               /\ returned[k] = <<>>
               /\ hist[k].steps = 0
               /\ hist[k].built = 0

\* a headerless text with a booking-date marker followed by a transaction line failed
C1_Witness ==
    /\ pc[1] = "done"
    /\ ~HasHeader(text[1])
    /\ \E n \in 2..Len(text[1]) : IsMarker(text[1], n - 1) /\ IsTransactionLine(text[1], n)
    /\ outcome[1] = "MissingStatementDate"

\* the year the first header of the text carries (NoYear when there is none)
StatementYear(t) == extract_year(t).year

\* every date and every amount written in the text is a valid one
WellFormed(t) ==
    /\ \A n \in 1..Len(t) :
          LET f == LineFacts[t[n]]
          IN  /\ f.header => parse_date(f.header_date).ok
              /\ f.booking => parse_date(f.booking_str).ok
              /\ f.match.matched => /\ parse_valuta(f.match.g2, StatementYear(t)).ok
                                    /\ f.betrag.ok

\* the lines that match the transaction-line grammar and lie after a marker
GrammarLinesInBlocks(t) ==
    {n \in 1..Len(t) : IsTransactionLine(t, n) /\ \E j \in 1..(n - 1) : IsMarker(t, j)}

\* C2: on a well-formed text with a header parse succeeds and returns as many
\* records as there are lines that match the transaction-line grammar after
\* some booking-date marker
C2_CountsGrammarLines ==
    \A k \in Invocations :
        (pc[k] = "done" /\ HasHeader(text[k]) /\ WellFormed(text[k]))
            => /\ outcome[k] = "ok"
               /\ Len(returned[k]) = Cardinality(GrammarLinesInBlocks(text[k]))

\* the nearest marker line before line n (1-based) of t, 0 if there is none
NearestMarker(t, n) ==
    LET before == {j \in 1..(n - 1) : IsMarker(t, j)}
    IN  IF before = {} THEN 0 ELSE CHOOSE j \in before : \A h \in before : h <= j

\* C3: every record carries the date of the nearest booking-date marker that
\* precedes its transaction line
C3_NearestMarkerDate ==
    \A k \in Invocations :
        (pc[k] = "done" /\ outcome[k] = "ok")
            => \A r \in 1..Len(returned[k]) :
                  LET n == returned[k][r].src + 1
                      m == NearestMarker(text[k], n)
                  IN  /\ m # 0
                      /\ returned[k][r].buchungsdatum
                            = parse_date(LineFacts[text[k][m]].booking_str).date

\* C4: the records come in the order of their lines in the text
C4_EncounterOrder ==
    \A k \in Invocations :
        (pc[k] = "done" /\ outcome[k] = "ok")
            => \A a, b \in 1..Len(returned[k]) :
                  a < b => returned[k][a].src < returned[k][b].src

\* two records came back of which the first has the later value date and the
\* smaller amount: sorting by either would have swapped them
C4_Witness ==
    /\ pc[1] = "done"
    /\ outcome[1] = "ok"
    /\ Len(returned[1]) >= 2
    /\ returned[1][1].valuta.d > returned[1][2].valuta.d
    /\ returned[1][1].betrag.digits = <<9, 9>>
    /\ returned[1][2].betrag.digits = <<1, 7, 6, 0>>

\* C8: a call that ends in an error hands back no record, whatever it had
\* built before the error
C8_AtomicFailure ==
    \A k \in Invocations :
        (pc[k] = "done" /\ outcome[k] \in Errors) => returned[k] = <<>>

\* a call failed on a malformed amount after it had built a record
C8_Witness ==
    /\ pc[1] = "done"
    /\ outcome[1] = "MalformedAmount"
    /\ hist[1].built >= 1

\* C5: a call on the probe text ends as the first call on it ended, with a
\* deep-equal record sequence or the same failure, whatever was parsed in between
C5_Idempotent ==
    \A k \in Invocations :
        (pc[k] = "done" /\ text[k] = probe.text /\ probe.seen)
            => /\ outcome[k] = probe.outcome
               /\ returned[k] = probe.returned

\* the probe text was parsed on the fresh parser, another text was parsed, and
\* the probe text was parsed again while the parser held another statement's
\* year; it yielded a record both times
C5_Witness ==
    /\ pc[1] = "done"
    /\ text[1] = probe.text
    /\ probe.again
    /\ outcome[1] = "ok"
    /\ Len(returned[1]) >= 1
    /\ returned[1] = probe.returned

\* C6: at the start of every parse call the year context is unresolved
C6_CleanYearAtCall ==
    \A k \in Invocations : pc[k] = "extract" => year[self[k]] = NoYear

\* C7: under every interleaving, every record a call returns has its value
\* date in the year of the statement header of the call's own text
C7_OwnYear ==
    \A k \in Invocations :
        (pc[k] = "done" /\ outcome[k] = "ok")
            => \A r \in 1..Len(returned[k]) :
                  returned[k][r].valuta.y = StatementYear(text[k])

Scanning == {"extract", "outer", "inner"}

\* what C9 says of one step of call k
StepProgress(k) ==
    /\ (pc[k] \in Scanning /\ pc'[k] \in Scanning) => i'[k] >= i[k]
    /\ hist'[k].steps = hist[k].steps + 1
          => \/ i'[k] >= i[k] + 1
             \/ /\ i'[k] = i[k]
                /\ pc[k] = "inner" /\ pc'[k] = "outer"
                /\ IsMarker(text[k], i[k] + 1)
                /\ hist'[k].last = "break"
    /\ (hist[k].last = "break" /\ hist'[k].steps = hist[k].steps + 1)
          => i'[k] = i[k] + 1
    /\ hist'[k].examined <= 5
    /\ hist'[k].steps <= 2 * Len(text'[k])

\* C9: every call terminates: the cursor never decreases; every scanner step
\* advances it, or leaves the block at a marker without advancing and the
\* next step advances; a look-ahead examines at most 5 lines; the steps of
\* a call are bounded by the number of lines; and a running call always has
\* a next step to take
C9_Terminates ==
    /\ [][\A k \in Invocations : StepProgress(k)]_vars
    /\ [](\A k \in Invocations : pc[k] \in Scanning => ENABLED Scan(k))

\* a call returned after a look-ahead that the bound of 5 cut short (a sixth
\* continuation line followed) and after leaving a block at a marker
C9_Witness ==
    /\ pc[1] = "done"
    /\ outcome[1] = "ok"
    /\ hist[1].examined = 5
    /\ Len(text[1]) >= 9
    /\ \A n \in 4..9 : text[1][n] = 9
    /\ hist[1].breaks >= 1
    /\ hist[1].steps > Len(text[1])

\* the body of an amount token without its trailing minus
Body(s) == IF s # <<>> /\ s[Len(s)] = "-" THEN SubSeq(s, 1, Len(s) - 1) ELSE s

AllDigits(s) == \A n \in 1..Len(s) : s[n] \in Digit

\* digits with period thousands separators (or none), a comma, fractional
\* digits, an optional trailing minus
IsLocaleNumeral(s) ==
    LET body   == Body(s)
        commas == {n \in 1..Len(body) : body[n] = ","}
    IN  /\ Cardinality(commas) = 1
        /\ LET c    == CHOOSE n \in commas : TRUE
               ip   == SubSeq(body, 1, c - 1)
               frac == SubSeq(body, c + 1, Len(body))
           IN  /\ frac # <<>> /\ AllDigits(frac)
               /\ ip # <<>>
               /\ \/ AllDigits(ip)
                  \/ /\ ip[1] \in Digit
                     /\ \A n \in 1..Len(ip) :
                           IF (Len(ip) - n) % 4 = 3 THEN ip[n] = "." ELSE ip[n] \in Digit

RECURSIVE DigitsOf(_)
DigitsOf(s) == IF s = <<>> THEN <<>>
               ELSE IF Head(s) \in Digit THEN <<DigitVal(Head(s))>> \o DigitsOf(Tail(s))
               ELSE DigitsOf(Tail(s))

\* the value a locale numeral denotes: its digits without the separators, as
\* many fractional digits as follow the comma, negative if the minus is there
ExactValue(s) ==
    LET body   == Body(s)
        c      == CHOOSE n \in 1..Len(body) : body[n] = ","
        digits == StripLeadingZeros(DigitsOf(body))
    IN  [sign   |-> IF Body(s) # s /\ ~IsZeroDigits(digits) THEN 1 ELSE 0,
         digits |-> digits,
         exp    |-> c - Len(body)]

\* C10: for every locale numeral _parse_betrag returns exactly the value the
\* numeral denotes, with its fractional precision, negated iff the minus is there
C10_ExactAmount ==
    (amount.called /\ IsLocaleNumeral(betrag_str))
        => /\ amount.ok
           /\ amount.value = ExactValue(betrag_str)

-----------------------------------------------------------------------------
(* Properties of the value date *)

\* line n (1-based) of t is the first line with a statement-date header
IsFirstHeader(t, n) ==
    /\ LineFacts[t[n]].header
    /\ \A j \in 1..(n - 1) : ~LineFacts[t[j]].header

\* C12: the value date of every record has the day and the month written on
\* the record's own line and the year of the first statement-date header of
\* the text, whatever later headers and the booking-date markers say
C12_ValueDateYear ==
    \A k \in Invocations :
        (pc[k] = "done" /\ outcome[k] = "ok")
            => \A r \in 1..Len(returned[k]) :
                  /\ returned[k][r].valuta.d
                        = Num2(LineFacts[text[k][returned[k][r].src + 1]].match.g2, 1)
                  /\ returned[k][r].valuta.m
                        = Num2(LineFacts[text[k][returned[k][r].src + 1]].match.g2, 4)
                  /\ \E n \in 1..Len(text[k]) :
                        /\ IsFirstHeader(text[k], n)
                        /\ returned[k][r].valuta.y
                              = Num4(LineFacts[text[k][n]].header_date, 7)

\* a record came back from a text whose first header says 2020 while a later
\* header and the marker of the record's block say 2021
C12_Witness ==
    /\ pc[1] = "done"
    /\ outcome[1] = "ok"
    /\ Len(returned[1]) >= 1
    /\ returned[1][1].valuta.y = 2020
    /\ returned[1][1].buchungsdatum.y = 2021
    /\ \E n, j \in 1..Len(text[1]) :
          /\ IsFirstHeader(text[1], n)
          /\ n < j
          /\ LineFacts[text[1][j]].header
          /\ Num4(LineFacts[text[1][j]].header_date, 7) = 2021

-----------------------------------------------------------------------------
(* One parser: parse calls one after the other, and _parse_valuta called   *)
(* directly on the parser between them, as the tests call it               *)

\* 01.04, 29.02 and 31.02
ValutaStrings == {<<"0","1",".","0","4">>, <<"2","9",".","0","2">>, <<"3","1",".","0","2">>}

\* parser._parse_valuta(v) called from outside parse
ParseValuta ==
    /\ pc[1] \in {"idle", "done"}
    /\ \E v \in ValutaStrings :
          valuta_call' = [called |-> TRUE,
                          arg    |-> v,
                          yr     |-> year[1],
                          ok     |-> parse_valuta(v, year[1]).ok,
                          error  |-> parse_valuta(v, year[1]).error,
                          date   |-> parse_valuta(v, year[1]).date]
    /\ UNCHANGED <<year, self, pc, text, i, booking_date, transactions, outcome,
                   returned, hist, probe, betrag_str, amount, cell, csv, spans>>

CallValuta == pc[1] = "idle" /\ \E t \in TextsOver(TwicePool, MaxTwiceLines) : DoCall(1, t)

NextValuta == \/ CallValuta
              \/ ExtractYear(1)
              \/ OuterStep(1)
              \/ InnerStep(1)
              \/ Return(1)
              \/ Release(1)
              \/ ParseValuta

SpecValuta == Init /\ [][NextValuta]_vars

\* C13: a value-date parse made while no year is resolved fails with the
\* year-not-resolved error and yields no date; and inside a parse call the
\* year is resolved before any line is scanned, so that no parse call ends
\* with that error
C13_YearNotResolved ==
    /\ (valuta_call.called /\ valuta_call.yr = NoYear)
          => /\ ~valuta_call.ok
             /\ valuta_call.error = "YearNotResolved"
             /\ valuta_call.date = NoDate
    /\ \A k \in Invocations :
          /\ pc[k] \in {"outer", "inner"} => year[self[k]] # NoYear
          /\ outcome[k] # "YearNotResolved"

\* the direct call on the fresh parser failed with the year-not-resolved
\* error, and a later parse call on that parser returned a record
C13_Witness ==
    /\ valuta_call.called
    /\ valuta_call.yr = NoYear
    /\ valuta_call.error = "YearNotResolved"
    /\ pc[1] = "done"
    /\ outcome[1] = "ok"
    /\ Len(returned[1]) >= 1

-----------------------------------------------------------------------------
(* CSVWriter._format_betrag: float(betrag), then f"{amount:,.2f}"          *)
(* Natural numbers are digit tuples, most significant digit first           *)

\* 2**52: a double has a significand of 53 bits
TwoTo52 == <<4,5,0,3,5,9,9,6,2,7,3,7,0,4,9,6>>

Zeros(n) == [j \in 1..n |-> 0]

\* 2 * ds
Double(ds) ==
    (IF ds[1] >= 5 THEN <<1>> ELSE <<>>)
        \o [j \in 1..Len(ds) |->
               (2 * ds[j] + (IF j < Len(ds) /\ ds[j + 1] >= 5 THEN 1 ELSE 0)) % 10]

\* ds // 2
Half(ds) ==
    StripLeadingZeros([j \in 1..Len(ds) |->
        (ds[j] + (IF j > 1 /\ ds[j - 1] % 2 = 1 THEN 10 ELSE 0)) \div 2])

Odd(ds) == ds[Len(ds)] % 2 = 1

\* a < b, for numbers without leading zeros or of the same length
Less(a, b) ==
    \/ Len(a) < Len(b)
    \/ /\ Len(a) = Len(b)
       /\ \E j \in 1..Len(a) : a[j] < b[j] /\ \A h \in 1..(j - 1) : a[h] = b[h]

\* the digits of an incremented number with its carry in front
WithCarry(inc) == (IF inc.carry THEN <<1>> ELSE <<>>) \o inc.digits

\* ds + 1
Succ(ds) == WithCarry(Increment(ds))

\* round-half-even of a quotient q whose remainder is described by the
\* round bit (remainder >= half) and the sticky bit (remainder not 0 or half)
RoundHalfEven(q, rb, sticky) == IF rb /\ (sticky \/ Odd(q)) THEN Succ(q) ELSE q

\* a number before any of its bits is shifted out
Unshifted(ds) == [q |-> ds, rb |-> FALSE, sticky |-> FALSE]

\* r.q >> n with the round bit (the last bit shifted out) and the sticky bit
\* (some bit shifted out before it was set)
RECURSIVE ShiftRight(_, _)
ShiftRight(r, n) ==
    IF n = 0 \/ r.q = <<>> THEN r
    ELSE ShiftRight([q |-> Half(r.q), rb |-> Odd(r.q), sticky |-> r.sticky \/ r.rb], n - 1)

\* round-half-even of a shifted number; `more` says that digits were dropped
\* before the shift
RoundShifted(r, more) == RoundHalfEven(r.q, r.rb, r.sticky \/ more)

\* ds << n
RECURSIVE ShiftLeft(_, _)
ShiftLeft(ds, n) == IF n = 0 \/ ds = <<>> THEN ds ELSE ShiftLeft(Double(ds), n - 1)

\* round-half-even of q + rest / (2 * half)
RoundRemainder(q, rest, half) ==
    RoundHalfEven(q, ~Less(rest, half), rest # half /\ ~IsZeroDigits(rest))

\* round-half-even of p / 10**f, for p of more than f digits
DivPow10(p, f) ==
    IF f = 0 THEN p
    ELSE RoundRemainder(SubSeq(p, 1, Len(p) - f), SubSeq(p, Len(p) - f + 1, Len(p)),
                        <<5>> \o Zeros(f - 1))

\* the least s with p * 2**s >= low
RECURSIVE ScaleUp(_, _, _)
ScaleUp(p, low, s) == IF Less(p, low) THEN ScaleUp(Double(p), low, s + 1) ELSE s

\* the least t with p < high * 2**t
RECURSIVE ScaleDown(_, _, _)
ScaleDown(p, high, t) == IF Less(p, high) THEN t ELSE ScaleDown(p, Double(high), t + 1)

\* 100 * x rounded half-even to an integer, for the double x = k / 2**s
CentsOfSmall(k, s) == RoundShifted(ShiftRight(Unshifted(k \o <<0, 0>>), s), FALSE)

\* the significand of the double nearest to w * 2**(-t) with w = n // 10**f
SignificandOfLarge(n, f, t) ==
    RoundShifted(ShiftRight(Unshifted(SubSeq(n, 1, Len(n) - f)), t),
                 ~IsZeroDigits(SubSeq(n, Len(n) - f + 1, Len(n))))

\* float(n / 10**f) for n / 10**f < 2**53: the double is k / 2**s with
\* 2**52 <= k <= 2**53; the cents f"{x:.2f}" prints
CentsBelow(n, f, s) == CentsOfSmall(DivPow10(ShiftLeft(n, s), f), s)

\* float(n / 10**f) for n / 10**f >= 2**53: the double is the integer
\* k * 2**t, printed with two zeros
CentsAbove(n, f, t) == ShiftLeft(SignificandOfLarge(n, f, t), t) \o <<0, 0>>

\* the integer that f"{float(n / 10**f):.2f}" prints, without its point
FloatCents(n, f) ==
    IF IsZeroDigits(n) THEN <<0>>
    ELSE IF Less(n, Double(TwoTo52 \o Zeros(f)))
    THEN CentsBelow(n, f, ScaleUp(n, TwoTo52 \o Zeros(f), 0))
    ELSE CentsAbove(n, f, ScaleDown(n, Double(Double(TwoTo52 \o Zeros(f))), 1))

\* str(int) of a digit tuple
Numeral(ds) == [j \in 1..Len(ds) |-> DigitSeq[ds[j] + 1]]

\* the ',' option of the format specification: groups of three digits
RECURSIVE Grouped(_)
Grouped(s) == IF Len(s) <= 3 THEN s
              ELSE Grouped(SubSeq(s, 1, Len(s) - 3)) \o <<",">> \o SubSeq(s, Len(s) - 2, Len(s))

\* at least three digits: one before the point and two after it
Padded(ds) == IF Len(ds) >= 3 THEN ds ELSE Zeros(3 - Len(ds)) \o ds

\* f"{x:,.2f}" of a double x >= 0 that prints the cents c
Fixed2(c) ==
    Grouped(Numeral(SubSeq(Padded(c), 1, Len(Padded(c)) - 2)))
        \o <<".">> \o Numeral(SubSeq(Padded(c), Len(Padded(c)) - 1, Len(Padded(c))))

\* .replace(',', 'X').replace('.', ',').replace('X', '.')
Germanize(s) == Replace(Replace(Replace(s, ",", "X"), ".", ","), "X", ".")

\* the character U+2212 MINUS SIGN of the format string, one element of a string
MinusSign == "U+2212"

\* the numerator and the number of fractional digits of abs(betrag)
Numerator(v) == IF v.exp > 0 THEN v.digits \o Zeros(v.exp) ELSE v.digits

Scale(v) == IF v.exp > 0 THEN 0 ELSE 0 - v.exp

\* _format_betrag: float(betrag) is negative, or zero with the sign of the
\* Decimal (-0.0 < 0 is false and '-0.00' is what the format prints), or positive
format_betrag(betrag) ==
    IF betrag.sign = 1 /\ ~IsZeroDigits(betrag.digits)
    THEN <<MinusSign>> \o Germanize(Fixed2(FloatCents(Numerator(betrag), Scale(betrag))))
    ELSE IF betrag.sign = 1
    THEN Germanize(<<"-">> \o Fixed2(<<0>>))
    ELSE Germanize(Fixed2(FloatCents(Numerator(betrag), Scale(betrag))))

-----------------------------------------------------------------------------
(* An amount token parsed by _parse_betrag and formatted by                *)
(* _format_betrag, and _format_betrag called directly on a Decimal          *)

MaxFormatLen == 4    \* longest enumerated amount token of SpecFormat

FormatChars == {"0", "1", "5", ".", ",", "-"}

\* 99.999.999.999.999,99 and 90.071.992.547.409,93-
LongFormatTokens == {
    <<"9","9",".","9","9","9",".","9","9","9",".","9","9","9",".","9","9","9",",","9","9">>,
    <<"9","0",".","0","7","1",".","9","9","2",".","5","4","7",".","4","0","9",",","9","3","-">>}

\* the tokens group 3 of the transaction pattern can hold
FormatTokens ==
    {s \in TextsOver(FormatChars, MaxFormatLen) : IsAmountToken(s)}
        \cup LongFormatTokens \cup {LongNumeral}

\* Decimal('-17.60'), Decimal('592.00'), Decimal('-1234.56'), Decimal('12345.67')
\* of the tests, and Decimal('-0.00')
DirectDecimals == {
    [sign |-> 1, digits |-> <<1,7,6,0>>, exp |-> -2],
    [sign |-> 0, digits |-> <<5,9,2,0,0>>, exp |-> -2],
    [sign |-> 1, digits |-> <<1,2,3,4,5,6>>, exp |-> -2],
    [sign |-> 0, digits |-> <<1,2,3,4,5,6,7>>, exp |-> -2],
    [sign |-> 1, digits |-> <<0>>, exp |-> -2]}

InitFormat ==
    /\ Fresh
    /\ self = [k \in Invocations |-> 1]
    /\ probe = NoProbe
    /\ betrag_str \in FormatTokens
    /\ amount = NotCalled
    /\ NoWriter

\* writer._format_betrag(betrag)
FormatBetrag(betrag) ==
    /\ ~cell.called
    /\ cell' = [called |-> TRUE, arg |-> betrag, text |-> format_betrag(betrag)]
    /\ UNCHANGED <<year, self, pc, text, i, booking_date, transactions, outcome,
                   returned, hist, probe, betrag_str, amount, valuta_call, csv, spans>>

\* the amount the parser made of the token is formatted
FormatParsed == amount.called /\ amount.ok /\ FormatBetrag(amount.value)

\* a Decimal built by the caller is formatted
FormatDirect == ~amount.called /\ \E d \in DirectDecimals : FormatBetrag(d)

NextFormat == \/ ParseBetrag
              \/ FormatParsed
              \/ FormatDirect

SpecFormat == InitFormat /\ [][NextFormat]_vars

-----------------------------------------------------------------------------
\* Properties of the amount cell

\* the numeral with a trailing ASCII minus turned into a leading minus sign
SignGlyph(s) ==
    IF Len(s) > 0 /\ s[Len(s)] = "-"
    THEN <<MinusSign>> \o SubSeq(s, 1, Len(s) - 1)
    ELSE s

\* the Decimal is a negative value
IsNegative(d) == d.sign = 1 /\ ~IsZeroDigits(d.digits)

\* C11: for every amount numeral the parser accepts, formatting the parsed
\* amount gives the numeral back, the trailing ASCII minus turned into a leading
\* U+2212.
C11_RoundTrip ==
    (amount.called /\ amount.ok /\ cell.called /\ cell.arg = amount.value)
        => cell.text = SignGlyph(betrag_str)

\* C17: the amount cell starts with U+2212 exactly when the formatted amount is
\* negative, and it holds no ASCII hyphen-minus.
C17_MinusSign ==
    cell.called =>
        /\ (Len(cell.text) > 0 /\ cell.text[1] = MinusSign) <=> IsNegative(cell.arg)
        /\ \A k \in 1..Len(cell.text) : cell.text[k] # "-"

-----------------------------------------------------------------------------
(* CSVWriter.write: the rows of a file, one action per step of the call *)

Lastschrift == <<"L","a","s","t","s","c","h","r","i","f","t">>

Gutschrift == <<"G","u","t","s","c","h","r","i","f","t">>

\* HEADER, the nine column names
HEADER == <<
    <<"B","u","c","h","u","n","g","s","t","a","g">>,
    <<"W","e","r","t","s","t","e","l","l","u","n","g">>,
    <<"U","m","s","a","t","z","a","r","t">>,
    <<"B","u","c","h","u","n","g","s","t","e","x","t">>,
    <<"B","e","t","r","a","g">>,
    <<"W","ä","h","r","u","n","g">>,
    <<"A","u","f","t","r","a","g","g","e","b","e","r","k","o","n","t","o">>,
    <<"B","a","n","k","l","e","i","t","z","a","h","l"," ","A","u","f","t","r","a","g","g","e","b","e","r","k","o","n","t","o">>,
    <<"I","B","A","N"," ","A","u","f","t","r","a","g","g","e","b","e","r","k","o","n","t","o">>
    >>

\* the columns of a row
Buchungstag == 1
Wertstellung == 2
Umsatzart == 3
Buchungstext == 4
Betrag == 5
Waehrung == 6

\* Transaction.is_debit: betrag < 0
is_debit(t) == t.betrag.sign = 1 /\ ~IsZeroDigits(t.betrag.digits)

\* Transaction.is_credit: betrag > 0
is_credit(t) == t.betrag.sign = 0 /\ ~IsZeroDigits(t.betrag.digits)

\* _get_umsatzart
get_umsatzart(t) == IF is_debit(t) THEN Lastschrift ELSE Gutschrift

\* the decimal digits of a natural number, no padding
RECURSIVE NatDigits(_)
NatDigits(n) == IF n < 10 THEN <<n>> ELSE Append(NatDigits(n \div 10), n % 10)

\* %d and %m: two digits, zero padded
TwoDigits(n) == Numeral(<<n \div 10, n % 10>>)

\* date.strftime('%d.%m.%Y'); %Y is the year as the C library prints it
strftime(date) ==
    TwoDigits(date.d) \o <<".">> \o TwoDigits(date.m) \o <<".">> \o Numeral(NatDigits(date.y))

\* a memo that takes the extended memo whenever the field is set
memo_if_present(t) ==
    IF t.verwendungszweck.some THEN t.verwendungszweck.v ELSE t.beschreibung

\* transaction.verwendungszweck or transaction.beschreibung: None and the empty
\* string are both false
memo(t) ==
    IF t.verwendungszweck.some /\ t.verwendungszweck.v # <<>>
    THEN t.verwendungszweck.v
    ELSE t.beschreibung

\* transaction.gegenkonto_iban or ''
iban(t) == IF t.gegenkonto_iban.some THEN t.gegenkonto_iban.v ELSE <<>>

\* _transaction_to_row, the values in the order of HEADER
transaction_to_row(t) ==
    <<strftime(t.buchungsdatum), strftime(t.valuta), get_umsatzart(t), memo(t),
      format_betrag(t.betrag), t.waehrung, <<>>, <<>>, iban(t)>>

UpperCase == <<"A","B","C","D","E","F","G","H","I","J","K","L","M","N","O","P","Q","R","S","T","U","V","W","X","Y","Z">>

LowerCase == <<"a","b","c","d","e","f","g","h","i","j","k","l","m","n","o","p","q","r","s","t","u","v","w","x","y","z">>

\* str.lower of one character
LowerChar(c) ==
    IF \E n \in 1..26 : UpperCase[n] = c
    THEN LowerCase[CHOOSE n \in 1..26 : UpperCase[n] = c]
    ELSE c

\* str.lower
Lower(s) == [k \in 1..Len(s) |-> LowerChar(s[k])]

\* the positions of character c in s
Positions(s, c) == {k \in 1..Len(s) : s[k] = c}

\* the largest member of a non-empty set of numbers
Greatest(S) == CHOOSE k \in S : \A j \in S : j <= k

\* Path.name: what follows the last separator
Name(path) ==
    IF Positions(path, "/") = {} THEN path
    ELSE SubSeq(path, Greatest(Positions(path, "/")) + 1, Len(path))

\* the suffix of a file name: from its last dot on, when that dot is neither
\* the first nor the last character of the name
NameSuffix(name) ==
    IF Positions(name, ".") = {} THEN <<>>
    ELSE IF 1 < Greatest(Positions(name, ".")) /\ Greatest(Positions(name, ".")) < Len(name)
    THEN SubSeq(name, Greatest(Positions(name, ".")), Len(name))
    ELSE <<>>

\* Path.suffix
Suffix(path) == NameSuffix(Name(path))

CsvSuffix == <<".","c","s","v">>

\* a check that takes every path ending in csv
ends_with_csv(path) ==
    Len(path) >= 3 /\ Lower(SubSeq(path, Len(path) - 2, Len(path))) = <<"c","s","v">>

\* _validate_output_path passes: output_path.suffix.lower() == '.csv'
validate_output_path(path) == Lower(Suffix(path)) = CsvSuffix

\* what the other variables keep while the writer runs
WriterFrame ==
    UNCHANGED <<year, self, pc, text, i, booking_date, transactions, outcome,
                returned, hist, probe, betrag_str, amount, valuta_call, cell, spans>>

\* write(transactions, output_path) is called; f is what the path names then
DoWrite(list, path, f) ==
    /\ csv.pc = "idle"
    /\ csv' = [NoCsv EXCEPT !.pc = "check", !.transactions = list, !.path = path,
                            !.before = f, !.file = f]
    /\ WriterFrame

\* the call ends with an exception
WriteRaise(error) == csv' = [csv EXCEPT !.pc = "done", !.outcome = error]

\* if not transactions: raise ValueError, lines 60-61
CheckEmpty ==
    /\ csv.pc = "check"
    /\ IF csv.transactions = <<>>
       THEN WriteRaise("ValueError")
       ELSE csv' = [csv EXCEPT !.pc = "validate"]
    /\ WriterFrame

\* self._validate_output_path(output_path), line 63
ValidatePath ==
    /\ csv.pc = "validate"
    /\ IF validate_output_path(csv.path)
       THEN csv' = [csv EXCEPT !.pc = "open"]
       ELSE WriteRaise("ValueError")
    /\ WriterFrame

\* open(output_path, 'w'), line 66: the file is created or truncated, or the
\* PermissionError of a file that may not be written is raised again, line 84
OpenFile ==
    /\ csv.pc = "open"
    /\ IF csv.file.readonly
       THEN WriteRaise("PermissionError")
       ELSE csv' = [csv EXCEPT !.pc = "header", !.opened = TRUE,
                               !.file = [exists |-> TRUE, readonly |-> FALSE, rows |-> <<>>]]
    /\ WriterFrame

\* writer.writeheader(), line 76
WriteHeader ==
    /\ csv.pc = "header"
    /\ csv' = [csv EXCEPT !.pc = "rows", !.file.rows = Append(csv.file.rows, HEADER)]
    /\ WriterFrame

\* one turn of the loop of lines 79-81: the next transaction becomes a row
WriteRow ==
    /\ csv.pc = "rows"
    /\ Len(csv.file.rows) <= Len(csv.transactions)
    /\ csv' = [csv EXCEPT !.file.rows =
                  Append(csv.file.rows,
                         transaction_to_row(csv.transactions[Len(csv.file.rows)]))]
    /\ WriterFrame

\* the loop is over, the file is closed and write returns
CloseFile ==
    /\ csv.pc = "rows"
    /\ Len(csv.file.rows) > Len(csv.transactions)
    /\ csv' = [csv EXCEPT !.pc = "done", !.outcome = "ok"]
    /\ WriterFrame

-----------------------------------------------------------------------------
(* The converter: a statement is parsed and the records are written, or    *)
(* records a caller built are written                                       *)

MaxRows == 2          \* most records of a list a caller built
MaxWriterLines == 2   \* most lines after the header and the first marker

WriterPool == {4, 9, 16, 17}

WriterTexts == {<<1, 2>> \o tail : tail \in TextsOver(WriterPool, MaxWriterLines)}

Paths == {<<"a",".","c","s","v">>, <<"a",".","C","S","V">>, <<"a",".","t","x","t">>,
          <<".","c","s","v">>, <<"a">>, <<"d",".","c","s","v","/","a">>}

\* what a row of an older file looks like
OldRows == <<<<<<"o","l","d">>>>>>

\* no file, a file that may be written, a file that may not
Files == {NoFile,
          [exists |-> TRUE, readonly |-> FALSE, rows |-> OldRows],
          [exists |-> TRUE, readonly |-> TRUE, rows |-> OldRows]}

\* Decimal('-17.60'), Decimal('592.00'), Decimal('0.00')
BuiltAmounts == {[sign |-> 1, digits |-> <<1,7,6,0>>, exp |-> -2],
                 [sign |-> 0, digits |-> <<5,9,2,0,0>>, exp |-> -2],
                 [sign |-> 0, digits |-> <<0,0,0>>, exp |-> -2]}

\* verwendungszweck: None, '' and 'RATE'
BuiltMemos == {None, Some(<<>>), Some(<<"R","A","T","E">>)}

\* Transaction(...) as a caller builds it
BuiltTransaction(betrag, zweck) ==
    [Transaction([d |-> 1, m |-> 4, y |-> 2021], [d |-> 1, m |-> 4, y |-> 2021],
                 <<"A">>, betrag, <<>>, 0)
        EXCEPT !.verwendungszweck = zweck]

BuiltTransactions == {BuiltTransaction(b, z) : b \in BuiltAmounts, z \in BuiltMemos}

CallWriter == pc[1] = "idle" /\ csv.pc = "idle" /\ \E t \in WriterTexts : DoCall(1, t)

\* writer.write(parser.parse(text), path)
WriteParsed ==
    /\ pc[1] = "done" /\ outcome[1] = "ok"
    /\ \E path \in Paths, f \in Files : DoWrite(returned[1], path, f)

\* writer.write(transactions, path) on a list the caller built
WriteBuilt ==
    /\ pc[1] = "idle" /\ text[1] = <<>>
    /\ \E list \in TextsOver(BuiltTransactions, MaxRows), path \in Paths, f \in Files :
          DoWrite(list, path, f)

NextWriter == \/ CallWriter
              \/ ExtractYear(1)
              \/ OuterStep(1)
              \/ InnerStep(1)
              \/ Return(1)
              \/ Release(1)
              \/ WriteParsed
              \/ WriteBuilt
              \/ CheckEmpty
              \/ ValidatePath
              \/ OpenFile
              \/ WriteHeader
              \/ WriteRow
              \/ CloseFile

SpecWriter == Init /\ [][NextWriter]_vars

-----------------------------------------------------------------------------
\* Properties of CSVWriter.write

\* the rows of the file that were written for the transactions of the call:
\* row n + 1 of the file is the row of transaction n
WrittenRows == IF csv.opened THEN 2..Len(csv.file.rows) ELSE {}

WrittenFrom(n) == csv.transactions[n - 1]

\* C14: a write call with an empty list, or with a path whose suffix is not
\* .csv in any letter case, never gets as far as opening the destination: the
\* file stays as it was before the call, and the call can only end with the
\* ValueError.
C14_FailsBeforeOpen ==
    (csv.pc # "idle" /\ (csv.transactions = <<>> \/ Lower(Suffix(csv.path)) # CsvSuffix))
        => /\ ~csv.opened
           /\ csv.file = csv.before
           /\ csv.pc \in {"check", "validate", "done"}
           /\ csv.pc = "done" => csv.outcome = "ValueError"

\* a list with records was refused for the path .csv, whose suffix is empty,
\* and the older file of that name kept its rows
C14_Witness ==
    /\ csv.pc = "done" /\ csv.outcome = "ValueError"
    /\ csv.transactions # <<>>
    /\ csv.path = CsvSuffix
    /\ csv.before.exists /\ ~csv.before.readonly
    /\ csv.file.rows = OldRows

\* C15: the type label of every written row is Lastschrift exactly when the
\* record is a debit and Gutschrift exactly when it is a credit.
C15_LabelIsDirection ==
    \A n \in WrittenRows :
        /\ csv.file.rows[n][Umsatzart] = Lastschrift <=> is_debit(WrittenFrom(n))
        /\ csv.file.rows[n][Umsatzart] = Gutschrift <=> is_credit(WrittenFrom(n))

-----------------------------------------------------------------------------
(* One parser, one booking block: the statement header and a marker,       *)
(* followed by transaction, noise and continuation lines                    *)

MaxBlockLines == 4

BlockPool == {2, 4, 7, 8, 9}

BlockTexts == {<<1, 2>> \o tail : tail \in TextsOver(BlockPool, MaxBlockLines)}

CallBlock == pc[1] = "idle" /\ \E t \in BlockTexts : DoCall(1, t)

NextBlock == \/ CallBlock
             \/ ExtractYear(1)
             \/ OuterStep(1)
             \/ InnerStep(1)
             \/ Return(1)
             \/ Release(1)

SpecBlock == Init /\ [][NextBlock]_vars

-----------------------------------------------------------------------------
\* Properties of the scanner and the collector

\* the lines (0-based) a transaction consumed: its own line and the lines
\* whose text was joined to its memo
Consumed(span) == {span.src} \cup span.absorbed

\* C18: while a call scans, its cursor is past every line consumed by the
\* transactions parsed so far: after a transaction parses the cursor is behind
\* the transaction line and its continuation lines, and no consumed line is the
\* scanner's candidate again.
C18_AdvancePastConsumed ==
    \A k \in Invocations :
        pc[k] \in {"outer", "inner"}
            => \A n \in 1..Len(spans[k]) : \A j \in Consumed(spans[k][n]) : i[k] > j

\* the class of a line under the one priority: marker, then transaction
\* pattern, then noise catalog, then continuation or blank
LineClass(f) ==
    IF f.booking THEN "marker"
    ELSE IF f.match.matched THEN "transaction"
    ELSE IF f.noise THEN "noise"
    ELSE "other"

ClassOf(t, n) == LineClass(LineFacts[t[n]])

\* line n (1-based) of the text of call k yielded a record
YieldedRecord(k, n) == \E r \in 1..Len(returned[k]) : returned[k][r].src = n - 1

\* the lines (1-based) of the window of a transaction on line src (0-based)
Window(t, src) == (src + 2)..Min(src + 1 + LookAhead, Len(t))

\* where the window of the transaction on line src ends under the one
\* priority: the first marker or transaction line in it, 0 if there is none
WindowEnd(t, src) ==
    IF \E n \in Window(t, src) : ClassOf(t, n) \in {"marker", "transaction"}
    THEN CHOOSE n \in Window(t, src) :
             /\ ClassOf(t, n) \in {"marker", "transaction"}
             /\ \A j \in Window(t, src) :
                   ClassOf(t, j) \in {"marker", "transaction"} => n <= j
    ELSE 0

\* C19: the scanner and the collector handle every line by its class under the
\* one priority: inside a block a line of class transaction yields a record
\* and no other line does, and every window ends at the first line of class
\* marker or transaction.
C19_OnePriority ==
    \A k \in Invocations :
        (pc[k] = "done" /\ outcome[k] = "ok")
            => /\ \A n \in 1..Len(text[k]) :
                     YieldedRecord(k, n)
                        <=> /\ ClassOf(text[k], n) = "transaction"
                            /\ \E j \in 1..(n - 1) : IsMarker(text[k], j)
               /\ \A s \in 1..Len(spans[k]) :
                     spans[k][s].stop = WindowEnd(text[k], spans[k][s].src)

\* line n (1-based) of t matches the noise catalog
IsNoise(t, n) == LineFacts[t[n]].noise

\* no record came from line n and no memo holds its text
Discarded(k, n) ==
    /\ ~YieldedRecord(k, n)
    /\ \A s \in 1..Len(spans[k]) : (n - 1) \notin spans[k][s].absorbed

-----------------------------------------------------------------------------
\* Properties of the marker lines

\* the date written in the marker of line n (1-based) of t
MarkerDate(t, n) == parse_date(LineFacts[t[n]].booking_str).date

\* no marker lies strictly between lines n and m of t
NoMarkerBetween(t, n, m) == \A j \in (n + 1)..(m - 1) : ~IsMarker(t, j)

\* C21: a line that contains a booking-date marker yields no record, and every
\* record of a line that follows it before the next marker carries its date.
C21_MarkerOnly ==
    \A k \in Invocations :
        (pc[k] = "done" /\ outcome[k] = "ok")
            => \A n \in 1..Len(text[k]) :
                  IsMarker(text[k], n)
                     => /\ ~YieldedRecord(k, n)
                        /\ \A r \in 1..Len(returned[k]) :
                              (returned[k][r].src + 1 > n
                                 /\ NoMarkerBetween(text[k], n, returned[k][r].src + 1))
                                 => returned[k][r].buchungsdatum = MarkerDate(text[k], n)

-----------------------------------------------------------------------------
(* One parser, long windows: a statement whose first block opens with a    *)
(* transaction line, followed by markers, transaction lines, noise, blank  *)
(* lines and continuation lines with blanks around them                     *)

MaxWindowLines == 6

WindowPool == {2, 4, 8, 10, 18}

WindowTexts == {<<1, 2, 4>> \o tail : tail \in TextsOver(WindowPool, MaxWindowLines)}

CallWindow == pc[1] = "idle" /\ \E t \in WindowTexts : DoCall(1, t)

NextWindow == \/ CallWindow
              \/ ExtractYear(1)
              \/ OuterStep(1)
              \/ InnerStep(1)
              \/ Return(1)
              \/ Release(1)

SpecWindow == Init /\ [][NextWindow]_vars

-----------------------------------------------------------------------------
\* Properties of the continuation window

\* line n (1-based) of t is one the scanner takes for a transaction line
ScannerTakes(t, n) ==
    /\ LineFacts[t[n]].match.matched
    /\ ~LineFacts[t[n]].noise

\* C22: the collector looks at no more than the 5 lines after a transaction
\* line, blank and noise lines included: a memo joins at most 5 lines, all of
\* them among those 5, and a transaction line beyond the window still yields
\* its own record.
C22_BoundedWindow ==
    \A k \in Invocations :
        \A s \in 1..Len(spans[k]) :
            /\ spans[k][s].examined <= LookAhead
            /\ Cardinality(spans[k][s].absorbed) <= LookAhead
            /\ \A j \in spans[k][s].absorbed :
                  spans[k][s].src < j /\ j <= spans[k][s].src + LookAhead
            /\ spans[k][s].stop # 0 => spans[k][s].stop - 1 <= spans[k][s].src + LookAhead
            /\ (pc[k] = "done" /\ outcome[k] = "ok")
                  => \A n \in (spans[k][s].src + LookAhead + 2)..Len(text[k]) :
                        ScannerTakes(text[k], n) => YieldedRecord(k, n)

\* a window ran over its 5 lines, a blank or noise line among them, without
\* meeting a transaction line or a marker, and the transaction line right
\* behind it yielded its record
C22_Witness ==
    /\ pc[1] = "done" /\ outcome[1] = "ok"
    /\ \E s \in 1..Len(spans[1]) :
          /\ spans[1][s].examined = LookAhead
          /\ spans[1][s].stop = 0
          /\ Cardinality(spans[1][s].absorbed) \in 1..(LookAhead - 1)
          /\ Len(text[1]) >= spans[1][s].src + LookAhead + 2
          /\ ScannerTakes(text[1], spans[1][s].src + LookAhead + 2)
          /\ YieldedRecord(1, spans[1][s].src + LookAhead + 2)

\* line n (1-based) of t is the empty line once stripped
IsBlank(t, n) == LineFacts[t[n]].line = <<>>

\* the scanner handled line n of the text of call k as a marker: no record
\* came from it and the records of the lines up to the next marker carry its date
HandledAsMarker(k, n) ==
    /\ IsMarker(text[k], n)
    /\ ~YieldedRecord(k, n)
    /\ \A r \in 1..Len(returned[k]) :
          (returned[k][r].src + 1 > n /\ NoMarkerBetween(text[k], n, returned[k][r].src + 1))
             => returned[k][r].buchungsdatum = MarkerDate(text[k], n)

\* the lines of the window of span s of call k that lie before its end
BeforeEnd(k, s) ==
    {n \in Window(text[k], spans[k][s].src) : spans[k][s].stop = 0 \/ n < spans[k][s].stop}

\* C23: a window ends at its first transaction line or marker, nothing is
\* joined from that line on, and the scanner then makes that line a record or
\* a marker of its own; a blank line before the end is not joined and does
\* not end the window.
C23_StopsAtBoundary ==
    \A k \in Invocations :
        (pc[k] = "done" /\ outcome[k] = "ok")
            => \A s \in 1..Len(spans[k]) :
                  /\ spans[k][s].stop = WindowEnd(text[k], spans[k][s].src)
                  /\ \A j \in spans[k][s].absorbed : (j + 1) \in BeforeEnd(k, s)
                  /\ spans[k][s].stop # 0
                        => \/ YieldedRecord(k, spans[k][s].stop)
                           \/ HandledAsMarker(k, spans[k][s].stop)
                  /\ \A n \in BeforeEnd(k, s) :
                        IsBlank(text[k], n) => (n - 1) \notin spans[k][s].absorbed

\* the least member of a non-empty set of numbers
Least(S) == CHOOSE j \in S : \A h \in S : j <= h

\* a blank and the trimmed text of each line (0-based) of S, in the order of
\* the lines
RECURSIVE Segments(_, _)
Segments(t, S) ==
    IF S = {} THEN <<>>
    ELSE <<" ">> \o Strip(Lexicon[t[Least(S) + 1]]) \o Segments(t, S \ {Least(S)})

\* C24: the extended memo of every record is its description followed by the
\* trimmed text of each line joined to it, in the order of the lines, with one
\* blank before each; with no line joined it is the description.
C24_MemoIsJoin ==
    \A k \in Invocations :
        (pc[k] = "done" /\ outcome[k] = "ok")
            => \A r \in 1..Len(returned[k]) :
                  /\ spans[k][r].src = returned[k][r].src
                  /\ returned[k][r].verwendungszweck
                        = Some(returned[k][r].beschreibung
                                  \o Segments(text[k], spans[k][r].absorbed))
                  /\ spans[k][r].absorbed = {}
                        => returned[k][r].verwendungszweck = Some(returned[k][r].beschreibung)

\* a memo was joined from two padded lines with a blank or noise line between
\* them, and another record has just its description
C24_Witness ==
    /\ pc[1] = "done" /\ outcome[1] = "ok"
    /\ \E r \in 1..Len(returned[1]) :
          /\ returned[1][r].verwendungszweck.v
                = <<"A"," ","R","A","T","E"," "," ","P","E","R"," ","R","A","T","E"," "," ","P","E","R">>
          /\ \E a, b \in spans[1][r].absorbed : b > a + 1
    /\ \E r \in 1..Len(returned[1]) :
          /\ spans[1][r].absorbed = {}
          /\ returned[1][r].verwendungszweck.v = <<"A">>

-----------------------------------------------------------------------------
(* One parser, dates: markers and transaction lines with dates that exist  *)
(* and dates that do not                                                    *)

MaxDateLines == 4

DatePool == {2, 4, 11, 13, 19, 20}

DateTexts == {<<1>> \o tail : tail \in TextsOver(DatePool, MaxDateLines)}

CallDates == pc[1] = "idle" /\ \E t \in DateTexts : DoCall(1, t)

NextDates == \/ CallDates
             \/ ExtractYear(1)
             \/ OuterStep(1)
             \/ InnerStep(1)
             \/ Return(1)
             \/ Release(1)

SpecDates == Init /\ [][NextDates]_vars

-----------------------------------------------------------------------------
\* Properties of the dates

\* line n (1-based) of t holds a marker whose date does not exist
BadMarker(t, n) == IsMarker(t, n) /\ ~parse_date(LineFacts[t[n]].booking_str).ok

\* line n (1-based) of t is a transaction line after some marker whose
\* day.month does not exist in the year yr
BadValueDate(t, n, yr) ==
    /\ IsTransactionLine(t, n)
    /\ \E j \in 1..(n - 1) : IsMarker(t, j)
    /\ ~ValidDate(Num2(LineFacts[t[n]].match.g2, 1), Num2(LineFacts[t[n]].match.g2, 4), yr)

\* the date exists
IsCalendarDate(date) == ValidDate(date.d, date.m, date.y)

\* C25: a call on a text with a marker whose date does not exist, or with a
\* transaction line in a block whose day.month does not exist in the statement
\* year, ends in an error and hands back no record; every record handed back
\* has a booking date and a value date that exist.
C25_InvalidDateFails ==
    \A k \in Invocations :
        pc[k] = "done"
            => /\ (\E n \in 1..Len(text[k]) :
                      \/ BadMarker(text[k], n)
                      \/ BadValueDate(text[k], n, StatementYear(text[k])))
                     => (outcome[k] \in Errors /\ returned[k] = <<>>)
               /\ \A r \in 1..Len(returned[k]) :
                     /\ IsCalendarDate(returned[k][r].buchungsdatum)
                     /\ IsCalendarDate(returned[k][r].valuta)

-----------------------------------------------------------------------------
(* One parser, amounts: transaction lines whose amount follows the locale  *)
(* grammar and lines whose amount does not                                  *)

MaxAmountLines == 4

AmountPool == {2, 4, 12, 21}

AmountTexts == {<<1>> \o tail : tail \in TextsOver(AmountPool, MaxAmountLines)}

CallAmounts == pc[1] = "idle" /\ \E t \in AmountTexts : DoCall(1, t)

NextAmounts == \/ CallAmounts
               \/ ExtractYear(1)
               \/ OuterStep(1)
               \/ InnerStep(1)
               \/ Return(1)
               \/ Release(1)

SpecAmounts == Init /\ [][NextAmounts]_vars

\* line n (1-based) of t is taken for a transaction line in a block and its
\* amount token does not follow the locale grammar
BadAmount(t, n) ==
    /\ ScannerTakes(t, n)
    /\ \E j \in 1..(n - 1) : IsMarker(t, j)
    /\ ~IsLocaleNumeral(LineFacts[t[n]].match.g3)

\* C26: a call on a text with a transaction line in a block whose amount token
\* does not follow the locale grammar ends with the malformed-amount error and
\* hands back no record.
C26_MalformedAmountFails ==
    \A k \in Invocations :
        (pc[k] = "done" /\ \E n \in 1..Len(text[k]) : BadAmount(text[k], n))
            => /\ outcome[k] = "MalformedAmount"
               /\ returned[k] = <<>>

\* a date as DD.MM.YYYY
DateCell(date) ==
    <<DigitSeq[(date.d \div 10) + 1], DigitSeq[(date.d % 10) + 1], ".",
      DigitSeq[(date.m \div 10) + 1], DigitSeq[(date.m % 10) + 1], ".",
      DigitSeq[(date.y \div 1000) + 1], DigitSeq[((date.y \div 100) % 10) + 1],
      DigitSeq[((date.y \div 10) % 10) + 1], DigitSeq[(date.y % 10) + 1]>>

\* the record has a purpose text
HasPurpose(t) == t.verwendungszweck.some /\ t.verwendungszweck.v # <<>>

\* C27: the row of a record with a description and a purpose text holds, in
\* this order, the booking date and the value date as DD.MM.YYYY, the type
\* label, the description of the record, the formatted amount and the currency.
C27_RowOfRecord ==
    \A n \in WrittenRows :
        HasPurpose(WrittenFrom(n))
           => /\ csv.file.rows[n][Buchungstag] = DateCell(WrittenFrom(n).buchungsdatum)
              /\ csv.file.rows[n][Wertstellung] = DateCell(WrittenFrom(n).valuta)
              /\ csv.file.rows[n][Umsatzart] \in {Lastschrift, Gutschrift}
              /\ csv.file.rows[n][Umsatzart] = Lastschrift <=> is_debit(WrittenFrom(n))
              /\ csv.file.rows[n][Buchungstext] = WrittenFrom(n).beschreibung
              /\ csv.file.rows[n][Betrag] = format_betrag(WrittenFrom(n).betrag)
              /\ csv.file.rows[n][Waehrung] = WrittenFrom(n).waehrung

-----------------------------------------------------------------------------
\* Properties of the lines of a text taken together

\* the nearest line before line n (1-based) of t that matches the
\* transaction pattern, 0 if there is none
NearestTransactionLine(t, n) ==
    IF \E j \in 1..(n - 1) : IsTransactionLine(t, j)
    THEN CHOOSE j \in 1..(n - 1) :
             /\ IsTransactionLine(t, j)
             /\ \A h \in (j + 1)..(n - 1) : ~IsTransactionLine(t, h)
    ELSE 0

\* the records whose memo holds the text of line n (1-based) of call k
AbsorbedBy(k, n) == {s \in 1..Len(spans[k]) : (n - 1) \in spans[k][s].absorbed}

\* C28: in a successful parse no line yields two records, a line that yields
\* a record is in no memo, a line in a memo is in the memo of one record only,
\* the record of the nearest transaction line before it, with no marker
\* between the two, and yields no record itself.
C28_OneRecordPerLine ==
    \A k \in Invocations :
        (pc[k] = "done" /\ outcome[k] = "ok")
            => /\ \A a, b \in 1..Len(returned[k]) :
                     returned[k][a].src = returned[k][b].src => a = b
               /\ \A n \in 1..Len(text[k]) :
                     /\ YieldedRecord(k, n) => AbsorbedBy(k, n) = {}
                     /\ Cardinality(AbsorbedBy(k, n)) <= 1
                     /\ \A s \in AbsorbedBy(k, n) :
                           /\ spans[k][s].src + 1 = NearestTransactionLine(text[k], n)
                           /\ \A j \in (spans[k][s].src + 2)..n : ~IsMarker(text[k], j)

\* two records of one text each took a line into their memo
C28_Witness ==
    /\ pc[1] = "done" /\ outcome[1] = "ok"
    /\ \E a, b \in 1..Len(spans[1]) :
          /\ a # b
          /\ spans[1][a].absorbed # {}
          /\ spans[1][b].absorbed # {}

====
